---- MODULE Spec2Model ----
(***************************************************************************)
(* The inventory / sales store of app.py (class InventoryManager) on the   *)
(* Local backend (supabase = None, app.py:17-24, the default when no       *)
(* credentials are configured), together with the Flask routes that call   *)
(* it.  data/inventory.json and data/sales.json are the two documents;     *)
(* every handler reads and rewrites them in full.                          *)
(*                                                                         *)
(* A flavor name is a Python str, modelled as the sequence of its          *)
(* characters so that strip() and title() are computed, not assumed.       *)
(* A read of a document can fail (file missing, malformed, or an OSError): *)
(* _load_from_file then yields its default.  Each read of a handler draws  *)
(* its outcome from BOOLEAN.  Writes are taken to succeed.                 *)
(***************************************************************************)
EXTENDS Integers, Sequences, FiniteSets, TLC

\* Largest absolute stock count and largest amount of one request.
MaxCount == 2
\* Number of clock ticks, hence of sale records ever created.
MaxTime == 2

VARIABLES
    inventory_file,   \* content of data/inventory.json: flavor -> count
    sales_file,       \* content of data/sales.json: sequence of sale records
    flavors,          \* InventoryManager.flavors, the in-memory catalog list
    now,              \* the clock read by datetime.now() / date.today()
    last,             \* the last request served and what it returned
    pc,               \* position of each concurrent record_sale request
    loc               \* local variables of each concurrent record_sale request

vars == <<inventory_file, sales_file, flavors, now, last, pc, loc>>

----------------------------------------------------------------------------
\* Characters and str methods

UpperChars == <<"A", "B", "C", "D", "E", "F", "G", "H", "I", "J", "K", "L", "M",
                "N", "O", "P", "Q", "R", "S", "T", "U", "V", "W", "X", "Y", "Z">>

LowerChars == <<"a", "b", "c", "d", "e", "f", "g", "h", "i", "j", "k", "l", "m",
                "n", "o", "p", "q", "r", "s", "t", "u", "v", "w", "x", "y", "z">>

Range(s) == {s[i] : i \in 1..Len(s)}

UpperSet == Range(UpperChars)

LowerSet == Range(LowerChars)

\* str.upper() / str.lower() of one cased character, and ord() of the
\* characters used: the code point that str comparison (and list.sort) uses.
ToUpper == [ch \in LowerSet |-> UpperChars[CHOOSE i \in 1..26 : LowerChars[i] = ch]]

ToLower == [ch \in UpperSet |-> LowerChars[CHOOSE i \in 1..26 : UpperChars[i] = ch]]

OrdOf ==
    [ch \in UpperSet \cup LowerSet \cup {" "} |->
        IF ch \in UpperSet THEN 64 + (CHOOSE i \in 1..26 : UpperChars[i] = ch)
        ELSE IF ch \in LowerSet THEN 96 + (CHOOSE i \in 1..26 : LowerChars[i] = ch)
        ELSE 32]

isupper(ch) == ch \in UpperSet

islower(ch) == ch \in LowerSet

isspace(ch) == ch = " "

upper(ch) == IF islower(ch) THEN ToUpper[ch] ELSE ch

lower(ch) == IF isupper(ch) THEN ToLower[ch] ELSE ch

ord(ch) == OrdOf[ch]

RECURSIVE lstrip(_)
lstrip(s) == IF s # <<>> /\ isspace(Head(s)) THEN lstrip(Tail(s)) ELSE s

RECURSIVE rstrip(_)
rstrip(s) ==
    IF s # <<>> /\ isspace(s[Len(s)]) THEN rstrip(SubSeq(s, 1, Len(s) - 1)) ELSE s

\* str.strip()
strip(s) == rstrip(lstrip(s))

\* str.title(): a cased character is upper-cased when it follows an uncased
\* one (or starts the string) and lower-cased when it follows a cased one.
RECURSIVE title_from(_, _)
title_from(s, previous_is_cased) ==
    IF s = <<>> THEN <<>>
    ELSE LET ch == Head(s)
             cased == isupper(ch) \/ islower(ch)
             out == IF ~cased THEN ch
                    ELSE IF previous_is_cased THEN lower(ch) ELSE upper(ch)
         IN  <<out>> \o title_from(Tail(s), cased)

title(s) == title_from(s, FALSE)

\* Python's str ordering: lexicographic by code point, a proper prefix first.
RECURSIVE str_lt(_, _)
str_lt(a, b) ==
    IF b = <<>> THEN FALSE
    ELSE IF a = <<>> THEN TRUE
    ELSE IF ord(Head(a)) # ord(Head(b)) THEN ord(Head(a)) < ord(Head(b))
    ELSE str_lt(Tail(a), Tail(b))

RECURSIVE insert_sorted(_, _)
insert_sorted(x, s) ==
    IF s = <<>> THEN <<x>>
    ELSE IF str_lt(x, Head(s)) THEN <<x>> \o s
    ELSE <<Head(s)>> \o insert_sorted(x, Tail(s))

\* list.sort() on a list of str
RECURSIVE sort(_)
sort(s) == IF s = <<>> THEN <<>> ELSE insert_sorted(s[Len(s)], sort(SubSeq(s, 1, Len(s) - 1)))

----------------------------------------------------------------------------
\* The seed catalog, app.py:35-39

Vanilla == <<"V", "a", "n", "i", "l", "l", "a">>
Chocolate == <<"C", "h", "o", "c", "o", "l", "a", "t", "e">>
Strawberry == <<"S", "t", "r", "a", "w", "b", "e", "r", "r", "y">>
Mango == <<"M", "a", "n", "g", "o">>
Kulfi == <<"K", "u", "l", "f", "i">>
Butterscotch == <<"B", "u", "t", "t", "e", "r", "s", "c", "o", "t", "c", "h">>
Pista == <<"P", "i", "s", "t", "a">>
ChocolateChip == <<"C", "h", "o", "c", "o", "l", "a", "t", "e", " ", "C", "h", "i", "p">>
BlackCurrent == <<"B", "l", "a", "c", "k", " ", "C", "u", "r", "r", "e", "n", "t">>
Orange == <<"O", "r", "a", "n", "g", "e">>
Coconut == <<"C", "o", "c", "o", "n", "u", "t">>
Cassata == <<"C", "a", "s", "s", "a", "t", "a">>

SeedFlavors ==
    <<Vanilla, Chocolate, Strawberry, Mango, Kulfi, Butterscotch, Pista,
      ChocolateChip, BlackCurrent, Orange, Coconut, Cassata>>

----------------------------------------------------------------------------
\* Inputs of the requests

\* A flavor that is not in the seed catalog.
Kesar == <<"K", "e", "s", "a", "r">>

\* Flavor names a request names: one seed flavor and one that is not seeded.
InputFlavors == {Vanilla, Kesar}

\* Raw names given to add_new_flavor / the manage_flavors form.
RawNames ==
    { <<" ", "k", "e", "s", "a", "r", " ">>,   \* normalizes to Kesar
      <<"v", "a", "n", "i", "l", "l", "a">>,   \* normalizes to the seed Vanilla
      <<" ", " ">>,                            \* normalizes to the empty name
      <<>> }

\* A count / quantity field of a request: <<>> when the field is absent,
\* <<n>> when it carries the integer n.
FieldValues == {<<>>} \cup {<<n>> : n \in (0 - 1)..2}

\* Amounts of a direct call that honours the documented precondition
\* (update_inventory: non-negative; record_sale: positive).
NonNegAmounts == 0..2

PosAmounts == 1..2

Operations == {"set", "add", "subtract"}

----------------------------------------------------------------------------
\* dict and helper operations

dict_get(d, k, default) == IF k \in DOMAIN d THEN d[k] ELSE default

dict_set(d, k, v) == [x \in DOMAIN d \cup {k} |-> IF x = k THEN v ELSE d[x]]

max(a, b) == IF a >= b THEN a ELSE b

\* int(request.form.get(name, 0)) / int(data.get(name, 0))
int_field(field) == IF field = <<>> THEN 0 ELSE field[1]

----------------------------------------------------------------------------
\* InventoryManager on the Local backend

\* {flavor: 0 for flavor in self.flavors}
default_inventory(flv) == [f \in Range(flv) |-> 0]

\* _load_from_file('data/inventory.json'): the document, or the default when
\* the file is missing or reading it raises.
load_inventory_file(doc, flv, ok) == IF ok THEN doc ELSE default_inventory(flv)

\* _load_from_file('data/sales.json')
load_sales_file(doc, ok) == IF ok THEN doc ELSE <<>>

get_inventory(doc, flv, ok) == load_inventory_file(doc, flv, ok)

\* new_count with the operands of the subtraction exchanged.
new_count_swapped(current_inventory, flavor, count, operation) ==
    IF operation = "add" THEN dict_get(current_inventory, flavor, 0) + count
    ELSE IF operation = "subtract"
         THEN max(0, count - dict_get(current_inventory, flavor, 0))
    ELSE count

\* new_count without the floor at zero.
new_count_no_floor(current_inventory, flavor, count, operation) ==
    IF operation = "add" THEN dict_get(current_inventory, flavor, 0) + count
    ELSE IF operation = "subtract"
         THEN dict_get(current_inventory, flavor, 0) - count
    ELSE count

\* The new count update_inventory computes from the snapshot it read.
new_count(current_inventory, flavor, count, operation) ==
    IF operation = "add" THEN dict_get(current_inventory, flavor, 0) + count
    ELSE IF operation = "subtract"
         THEN max(0, dict_get(current_inventory, flavor, 0) - count)
    ELSE count

\* update_inventory: what it returns and the inventory document it saves.
update_inventory(doc, flv, flavor, count, operation, ok) ==
    LET current_inventory == get_inventory(doc, flv, ok)
    IN  [ret |-> TRUE,
         inventory |-> dict_set(current_inventory, flavor,
                                new_count(current_inventory, flavor, count, operation))]

\* The stock check off by one: a sale of one more than the stock passes.
insufficient_stock_off_by_one(current_inventory, flavor, quantity) ==
    dict_get(current_inventory, flavor, 0) + 1 < quantity

\* The stock check comparing the wrong way round.
insufficient_stock_reversed(current_inventory, flavor, quantity) ==
    dict_get(current_inventory, flavor, 0) > quantity

\* The stock check of record_sale.
insufficient_stock(current_inventory, flavor, quantity) ==
    dict_get(current_inventory, flavor, 0) < quantity

\* date.today() of the instant t: two clock ticks to a calendar day.
today(t) == t \div 2

sale_data(flavor, quantity, t) ==
    [flavor |-> flavor, quantity |-> quantity, sale_date |-> today(t), timestamp |-> t]

\* record_sale: ok1 is the outcome of its inventory read, ok2 of its read of
\* the sales document, ok3 of the inventory read inside update_inventory.
record_sale(doc, sales, flv, t, flavor, quantity, ok1, ok2, ok3) ==
    LET current_inventory == get_inventory(doc, flv, ok1)
    IN  IF insufficient_stock(current_inventory, flavor, quantity)
        THEN [ret |-> FALSE, inventory |-> doc, sales |-> sales]
        ELSE [ret |-> TRUE,
              inventory |-> update_inventory(doc, flv, flavor, quantity, "subtract", ok3).inventory,
              sales |-> Append(load_sales_file(sales, ok2), sale_data(flavor, quantity, t))]

\* The duplicate check written as a truth test of the count
\* (current_inventory.get(flavor)): a flavor at count 0 passes for new.
flavor_exists_truthy(current_inventory, flavor) ==
    flavor \in DOMAIN current_inventory /\ current_inventory[flavor] # 0

\* The duplicate check of add_new_flavor.
flavor_exists(current_inventory, flavor) == flavor \in DOMAIN current_inventory

add_new_flavor(doc, flv, name, ok) ==
    LET flavor == title(strip(name))
        current_inventory == get_inventory(doc, flv, ok)
    IN  IF flavor = <<>> THEN [ret |-> FALSE, inventory |-> doc, flavors |-> flv]
        ELSE IF flavor_exists(current_inventory, flavor)
        THEN [ret |-> FALSE, inventory |-> doc, flavors |-> flv]
        ELSE [ret |-> TRUE,
              inventory |-> dict_set(current_inventory, flavor, 0),
              flavors |-> IF flavor \notin Range(flv)
                          THEN sort(Append(flv, flavor)) ELSE flv]

----------------------------------------------------------------------------
\* State after construction: InventoryManager.__init__ on an empty data
\* directory writes every seed flavor at 0 and an empty sales list.

\* last: the store call made (op), its arguments, what it returned, whether
\* its first read succeeded (ok1) and whether all its reads did (ok).
NoRequest ==
    [op |-> "none", flavor |-> <<>>, count |-> 0, operation |-> "",
     ret |-> FALSE, ok1 |-> TRUE, ok |-> TRUE]

Requests == {1, 2}

Init ==
    /\ flavors = SeedFlavors
    /\ inventory_file = default_inventory(SeedFlavors)
    /\ sales_file = <<>>
    /\ now = 0
    /\ last = NoRequest
    /\ pc = [i \in Requests |-> "idle"]
    /\ loc = [i \in Requests |-> <<>>]

\* Counts stay within the bound of the model.
InBounds(inventory) ==
    \A f \in DOMAIN inventory : inventory[f] \in (0 - MaxCount)..MaxCount

----------------------------------------------------------------------------
\* One request served from start to end (no other request interleaved)

\* What a call contributes to `last`: a direct call leaves its arguments
\* there, a call made by a route only its kind and outcome.
Observed(direct, op, flavor, count, operation, ret, ok1, ok) ==
    IF direct
    THEN [op |-> op, flavor |-> flavor, count |-> count, operation |-> operation,
          ret |-> ret, ok1 |-> ok1, ok |-> ok]
    ELSE [NoRequest EXCEPT !.op = op, !.ret = ret]

\* inventory_manager.update_inventory(flavor, count, operation)
DoUpdateInventory(direct, flavor, count, operation, ok) ==
    LET r == update_inventory(inventory_file, flavors, flavor, count, operation, ok)
    IN  /\ InBounds(r.inventory)
        /\ inventory_file' = r.inventory
        /\ last' = Observed(direct, "update_inventory", flavor, count, operation,
                            r.ret, ok, ok)
        /\ UNCHANGED <<sales_file, flavors, now, pc, loc>>

\* inventory_manager.record_sale(flavor, quantity) with the outcomes of its reads
RecordSaleWith(direct, flavor, quantity, ok1, ok2, ok3) ==
    LET r == record_sale(inventory_file, sales_file, flavors, now, flavor, quantity,
                         ok1, ok2, ok3)
    IN  /\ r.ret => now < MaxTime
        /\ InBounds(r.inventory)
        /\ inventory_file' = r.inventory
        /\ sales_file' = r.sales
        /\ now' = IF r.ret THEN now + 1 ELSE now
        /\ last' = Observed(direct, "record_sale", flavor, quantity, "", r.ret,
                            ok1, ok1 /\ ok2 /\ ok3)
        /\ UNCHANGED <<flavors, pc, loc>>

\* The reads that follow the stock check happen only when the check passes.
LaterReads(flavor, quantity, ok1) ==
    IF insufficient_stock(get_inventory(inventory_file, flavors, ok1), flavor, quantity)
    THEN {TRUE} ELSE BOOLEAN

\* inventory_manager.record_sale(flavor, quantity)
DoRecordSale(direct, flavor, quantity) ==
    \E ok1 \in BOOLEAN :
        \E ok2, ok3 \in LaterReads(flavor, quantity, ok1) :
            RecordSaleWith(direct, flavor, quantity, ok1, ok2, ok3)

\* inventory_manager.add_new_flavor(name)
DoAddNewFlavor(direct, name, ok) ==
    LET r == add_new_flavor(inventory_file, flavors, name, ok)
    IN  /\ inventory_file' = r.inventory
        /\ flavors' = r.flavors
        /\ last' = Observed(direct, "add_new_flavor", name, 0, "", r.ret, ok, ok)
        /\ UNCHANGED <<sales_file, now, pc, loc>>

\* A route that rejects its request before calling the store.
Rejected ==
    /\ last' = [NoRequest EXCEPT !.op = "rejected"]
    /\ UNCHANGED <<inventory_file, sales_file, flavors, now, pc, loc>>

\* Direct calls of the store, within the documented preconditions.
CallUpdateInventory ==
    \E flavor \in InputFlavors, count \in NonNegAmounts, operation \in Operations,
       ok \in BOOLEAN :
        DoUpdateInventory(TRUE, flavor, count, operation, ok)

CallRecordSale ==
    \E flavor \in InputFlavors, quantity \in PosAmounts :
        DoRecordSale(TRUE, flavor, quantity)

CallAddNewFlavor ==
    \E name \in RawNames, ok \in BOOLEAN : DoAddNewFlavor(TRUE, name, ok)

\* The store used as a library, one call at a time.  update_inventory and
\* add_new_flavor touch the inventory document and the catalog only;
\* record_sale touches the two documents and the clock, never the catalog.
InventoryNext ==
    \/ CallUpdateInventory
    \/ CallAddNewFlavor

SpecInventory == Init /\ [][InventoryNext]_vars

SalesNext ==
    \/ CallUpdateInventory
    \/ CallRecordSale

SpecSales == Init /\ [][SalesNext]_vars

\* POST /add_stock
add_stock ==
    \E flavor \in InputFlavors \cup {<<>>}, field \in FieldValues :
        LET count == int_field(field)
        IN  IF flavor # <<>> /\ count > 0
            THEN \E ok \in BOOLEAN : DoUpdateInventory(FALSE, flavor, count, "add", ok)
            ELSE Rejected

\* POST /record_sale
route_record_sale ==
    \E flavor \in InputFlavors \cup {<<>>}, field \in FieldValues :
        LET quantity == int_field(field)
        IN  IF flavor # <<>> /\ quantity > 0
            THEN DoRecordSale(FALSE, flavor, quantity)
            ELSE Rejected

\* POST /manage_flavors
manage_flavors ==
    \E name \in RawNames :
        LET new_flavor == title(strip(name))
        IN  IF new_flavor # <<>>
            THEN \E ok \in BOOLEAN : DoAddNewFlavor(FALSE, new_flavor, ok)
            ELSE Rejected

\* POST /api/add_stock
api_add_stock ==
    \E flavor \in InputFlavors, field \in FieldValues, ok \in BOOLEAN :
        DoUpdateInventory(FALSE, flavor, int_field(field), "add", ok)

\* POST /api/record_sale
api_record_sale ==
    \E flavor \in InputFlavors, field \in FieldValues :
        DoRecordSale(FALSE, flavor, int_field(field))

Next ==
    \/ add_stock
    \/ route_record_sale
    \/ manage_flavors
    \/ api_add_stock
    \/ api_record_sale

\* The application as served: requests arrive through the routes.
Spec == Init /\ [][Next]_vars

----------------------------------------------------------------------------
\* Two record_sale requests served concurrently (the development server is
\* threaded and the store takes no lock): each read and each write of a
\* document is one step.  The documents stay readable here.

Steps == {"get_inventory", "load_sales", "save_sales", "update_get", "update_save", "done"}

\* The locals of one record_sale call: its arguments, the snapshot it checks
\* the stock against, the instant of its sale_data, the sales list it loaded
\* and appended to, the snapshot update_inventory modifies, its return value.
NewRequest(flavor, quantity) ==
    [flavor |-> flavor, quantity |-> quantity, current_inventory |-> <<>>,
     stamp |-> 0, sales |-> <<>>, updated |-> <<>>, ret |-> FALSE]

ConcFlavors == {Vanilla, Chocolate}

\* Stock that earlier add_stock requests have left.
InitConc ==
    /\ flavors = SeedFlavors
    /\ \E stock \in [ConcFlavors -> 0..MaxCount] :
          inventory_file = [f \in Range(SeedFlavors) |->
                               IF f \in ConcFlavors THEN stock[f] ELSE 0]
    /\ sales_file = <<>>
    /\ now = 0
    /\ last = NoRequest
    /\ pc = [i \in Requests |-> "get_inventory"]
    /\ \E flavor \in [Requests -> ConcFlavors], quantity \in [Requests -> PosAmounts] :
          loc = [i \in Requests |-> NewRequest(flavor[i], quantity[i])]

\* current_inventory = self.get_inventory(); the stock check; sale_data
GetInventory(i) ==
    /\ pc[i] = "get_inventory"
    /\ LET current_inventory == get_inventory(inventory_file, flavors, TRUE)
       IN  IF insufficient_stock(current_inventory, loc[i].flavor, loc[i].quantity)
           THEN /\ loc' = [loc EXCEPT ![i].current_inventory = current_inventory,
                                       ![i].ret = FALSE]
                /\ pc' = [pc EXCEPT ![i] = "done"]
                /\ now' = now
           ELSE /\ loc' = [loc EXCEPT ![i].current_inventory = current_inventory,
                                       ![i].stamp = now]
                /\ pc' = [pc EXCEPT ![i] = "load_sales"]
                /\ now' = now + 1
    /\ UNCHANGED <<inventory_file, sales_file, flavors, last>>

\* sales = self._load_from_file('data/sales.json'); sales.append(sale_data)
LoadSales(i) ==
    /\ pc[i] = "load_sales"
    /\ loc' = [loc EXCEPT ![i].sales =
                  Append(load_sales_file(sales_file, TRUE),
                         sale_data(loc[i].flavor, loc[i].quantity, loc[i].stamp))]
    /\ pc' = [pc EXCEPT ![i] = "save_sales"]
    /\ UNCHANGED <<inventory_file, sales_file, flavors, now, last>>

\* self._save_to_file('data/sales.json', sales)
SaveSales(i) ==
    /\ pc[i] = "save_sales"
    /\ sales_file' = loc[i].sales
    /\ pc' = [pc EXCEPT ![i] = "update_get"]
    /\ UNCHANGED <<inventory_file, flavors, now, last, loc>>

\* update_inventory(flavor, quantity, 'subtract'): its read and new count
UpdateGet(i) ==
    /\ pc[i] = "update_get"
    /\ LET current_inventory == get_inventory(inventory_file, flavors, TRUE)
       IN  loc' = [loc EXCEPT ![i].updated =
                      dict_set(current_inventory, loc[i].flavor,
                               new_count(current_inventory, loc[i].flavor,
                                         loc[i].quantity, "subtract"))]
    /\ pc' = [pc EXCEPT ![i] = "update_save"]
    /\ UNCHANGED <<inventory_file, sales_file, flavors, now, last>>

\* self._save_to_file('data/inventory.json', current_inventory); return True
UpdateSave(i) ==
    /\ pc[i] = "update_save"
    /\ inventory_file' = loc[i].updated
    /\ loc' = [loc EXCEPT ![i].ret = TRUE]
    /\ pc' = [pc EXCEPT ![i] = "done"]
    /\ UNCHANGED <<sales_file, flavors, now, last>>

NextConc ==
    \E i \in Requests :
        \/ GetInventory(i)
        \/ LoadSales(i)
        \/ SaveSales(i)
        \/ UpdateGet(i)
        \/ UpdateSave(i)

SpecConc == InitConc /\ [][NextConc]_vars

----------------------------------------------------------------------------
\* Properties

\* The count of flavor f in the snapshot a call's first get_inventory
\* returned: the stored count (0 if f is no key) when the read succeeded, 0
\* when it failed and the default mapping was returned.
SnapshotCount(f, ok1) == IF ok1 THEN dict_get(inventory_file, f, 0) ELSE 0

\* The keys of that snapshot.
SnapshotKeys(ok1) == IF ok1 THEN DOMAIN inventory_file ELSE Range(flavors)

IsPrefix(a, b) == Len(a) <= Len(b) /\ SubSeq(b, 1, Len(a)) = a

\* C1: record_sale(f, n) with n greater than the current count of f returns
\* False and changes neither document: no count changes, no sale is appended.
C1_InsufficientStockRejected ==
    [][(/\ last'.op = "record_sale"
        /\ last'.count > SnapshotCount(last'.flavor, last'.ok1))
       => (/\ last'.ret = FALSE
           /\ inventory_file' = inventory_file
           /\ sales_file' = sales_file)]_vars

\* A sale of 2 Vanilla was refused with 1 in stock, after an earlier sale.
C1_Witness ==
    /\ last.op = "record_sale" /\ last.flavor = Vanilla /\ last.count = 2
    /\ last.ok1 /\ ~last.ret
    /\ inventory_file[Vanilla] = 1
    /\ Len(sales_file) = 1

C3_CountsNonNegative ==
    \A f \in DOMAIN inventory_file : inventory_file[f] >= 0

\* C4: every sale record in the log has a quantity of at least 1.
C4_SaleQuantitiesPositive ==
    \A i \in 1..Len(sales_file) : sales_file[i].quantity >= 1

\* C5: the in-memory catalog contains every key of the inventory document
\* and every flavor of a sale record.
C5_CatalogSuperset ==
    /\ DOMAIN inventory_file \subseteq Range(flavors)
    /\ \A i \in 1..Len(sales_file) : sales_file[i].flavor \in Range(flavors)

\* C6: the sales log is append-only: every step keeps the records already
\* in the log, in order, and adds at most one, and only when record_sale
\* returns True.
C6_LogAppendOnly ==
    [][/\ IsPrefix(sales_file, sales_file')
       /\ Len(sales_file') <= Len(sales_file) + 1
       /\ (Len(sales_file') = Len(sales_file) + 1
             => last'.op = "record_sale" /\ last'.ret)]_vars

C9_UpdateInventoryFrame ==
    [][last'.op = "update_inventory"
       => \A g \in (DOMAIN inventory_file \cup DOMAIN inventory_file') \ {last'.flavor} :
             /\ g \in DOMAIN inventory_file
             /\ g \in DOMAIN inventory_file'
             /\ inventory_file'[g] = inventory_file[g]]_vars

\* The parts of a concurrent record_sale call that follow a passed stock check.
PastCheck(i) ==
    \/ pc[i] \in {"load_sales", "save_sales", "update_get", "update_save"}
    \/ pc[i] = "done" /\ loc[i].ret

\* C10 as stated: of two concurrent requests for the same flavor f, each
\* writes its sale record only if the stored inventory[f] at that moment is
\* >= its quantity.
C10_StockCoversSaleAtAppend ==
    [][\A i \in Requests :
          (/\ loc[1].flavor = loc[2].flavor
           /\ pc[i] = "save_sales" /\ pc'[i] = "update_get")
          => dict_get(inventory_file, loc[i].flavor, 0) >= loc[i].quantity]_vars

\* C10 amended: a request goes on to append its sale record only if the
\* inventory[f] that the request itself read at its read-inventory step is
\* >= its quantity.
C10_SnapshotCoversSale ==
    \A i \in Requests :
        PastCheck(i) =>
            dict_get(loc[i].current_inventory, loc[i].flavor, 0) >= loc[i].quantity

\* Both requests sold Vanilla from a stock of 1: two records, count 0.
C10_Witness ==
    /\ \A i \in Requests :
          pc[i] = "done" /\ loc[i].ret /\ loc[i].flavor = Vanilla /\ loc[i].quantity = 1
    /\ loc[1].current_inventory[Vanilla] = 1
    /\ loc[2].current_inventory[Vanilla] = 1
    /\ Len(sales_file) = 2
    /\ inventory_file[Vanilla] = 0

====
